---- MODULE Spec2Model ----
(***************************************************************************)
(* Model of fifo.py: a simpy discrete-event simulation in which four nodes *)
(* generate packets and offer each one to one of two bounded FIFO switches *)
(* (tail drop), the switches service one packet per fixed interval and a   *)
(* monitor samples queue lengths and drop counters.                        *)
(*                                                                         *)
(* Simulated time is counted in hundredths of a simulation unit:           *)
(* env.timeout(0.2) is 20, env.timeout(0.1) is 10 and the node delay       *)
(* random.uniform(0.01, 0.1) is a value of 1 .. 10.                        *)
(*                                                                         *)
(* Rendering (draw_network, draw_packet, plot_results) changes no          *)
(* simulation state; its time.sleep calls only consume wall-clock time,    *)
(* which is why the run loop may end after any number of env.step() calls. *)
(* Packet.size is drawn and stored but never read, so it is left out.      *)
(***************************************************************************)
EXTENDS Integers, Sequences, FiniteSets, TLC

VARIABLES now, sched, max_queue_size, queue, dropped_packets, metrics, pc,
          last, generated, offered, accepted, delivered, short, calls,
          response

vars == <<now, sched, max_queue_size, queue, dropped_packets, metrics, pc,
          last, generated, offered, accepted, delivered, short, calls,
          response>>

\* ---------------------------------------------------------------- bounds
\* Largest simulated time (hundredths) whose events are still dispatched.
MaxTime == 20
\* Largest number of node delays below MaxDelay drawn in one run.
MaxShort == 1
\* Largest capacity passed to the Switch constructor.
MaxCapacity == 1
\* Largest number of direct enqueue_packet / process_packet calls.
MaxCalls == 4

\* ----------------------------------------------------- program constants
ServiceInterval == 20
SampleInterval == 10
MinDelay == 1
MaxDelay == 10
NumNodes == 4
NumSwitches == 2
DefaultCapacity == 10

\* Node delays explored: values of random.uniform(0.01, 0.1).
Delays == {d \in {5, 10} : MinDelay <= d /\ d <= MaxDelay}

Nodes == 1..NumNodes
Switches == 1..NumSwitches

PACKET_COLOR == "black"
DROPPED_PACKET_COLOR == "red"

\* Processes registered with the environment.
SwitchProc(s) == [type |-> "switch", id |-> s]
NodeProc(n) == [type |-> "node", id |-> n]
MonitorProc == [type |-> "monitor", id |-> 0]

\* simpy event priorities: Initialize events are URGENT, timeouts NORMAL.
URGENT == 0
NORMAL == 1

\* Optional value: <<>> is None, <<x>> is x.
None == <<>>

\* ------------------------------------------------------------- schedule
\* The environment's event heap, kept in pop order: by time, then by
\* priority, then by insertion order (simpy's event id).
Schedule(s, ev) ==
    LET k == Cardinality({i \in 1..Len(s) :
                 \/ s[i].time < ev.time
                 \/ s[i].time = ev.time /\ s[i].prio <= ev.prio})
    IN SubSeq(s, 1, k) \o <<ev>> \o SubSeq(s, k + 1, Len(s))

Initialize(p) == [time |-> 0, prio |-> URGENT, proc |-> p, kind |-> "init"]
Timeout(t, d, p) == [time |-> t + d, prio |-> NORMAL, proc |-> p, kind |-> "timeout"]

\* ---------------------------------------------------------------- Packet
Packet(packet_id, arrival_time, from_node, to_switch, serial) ==
    [packet_id |-> packet_id, arrival_time |-> arrival_time,
     from_node |-> from_node, to_switch |-> to_switch,
     color |-> PACKET_COLOR, serial |-> serial]

\* int(self.env.now): truncation of the time to whole simulation units.
IntNow(t) == t \div 100

\* Variant of generate_packet with a seeded fault: the packet is stamped with
\* the latest time of the node's next generation instead of env.now.
generate_packet_future(n, t, chosen_switch, serial) ==
    Packet(<<n, IntNow(t)>>, t + MaxDelay, n, chosen_switch, serial)

\* Node.generate_packet: the identifier is the node and the truncated time;
\* serial stands for the identity of the new Python object.
generate_packet(n, t, chosen_switch, serial) ==
    Packet(<<n, IntNow(t)>>, t, n, chosen_switch, serial)

\* ---------------------------------------------------------------- Switch
\* Variants of enqueue_packet and process_packet with a seeded fault.
\* Off by one: admits while len(queue) <= max_queue_size.
enqueue_packet_le(q, d, cap, packet) ==
    IF Len(q) <= cap
    THEN [queue |-> Append(q, packet), dropped_packets |-> d,
          packet |-> packet, accepted |-> TRUE]
    ELSE [queue |-> q, dropped_packets |-> d + 1,
          packet |-> [packet EXCEPT !.color = DROPPED_PACKET_COLOR],
          accepted |-> FALSE]

\* Off by one: keeps the last slot free.
enqueue_packet_short(q, d, cap, packet) ==
    IF Len(q) + 1 < cap
    THEN [queue |-> Append(q, packet), dropped_packets |-> d,
          packet |-> packet, accepted |-> TRUE]
    ELSE [queue |-> q, dropped_packets |-> d + 1,
          packet |-> [packet EXCEPT !.color = DROPPED_PACKET_COLOR],
          accepted |-> FALSE]

\* Head drop: a full queue loses its oldest packet to the arriving one.
enqueue_packet_head_drop(q, d, cap, packet) ==
    IF Len(q) < cap
    THEN [queue |-> Append(q, packet), dropped_packets |-> d,
          packet |-> packet, accepted |-> TRUE]
    ELSE [queue |-> IF q = <<>> THEN q ELSE Append(Tail(q), packet),
          dropped_packets |-> d + 1,
          packet |-> [packet EXCEPT !.color = DROPPED_PACKET_COLOR],
          accepted |-> FALSE]

\* Missing else: the drop counter is incremented on every call.
enqueue_packet_always_counts(q, d, cap, packet) ==
    IF Len(q) < cap
    THEN [queue |-> Append(q, packet), dropped_packets |-> d + 1,
          packet |-> packet, accepted |-> TRUE]
    ELSE [queue |-> q, dropped_packets |-> d + 1,
          packet |-> [packet EXCEPT !.color = DROPPED_PACKET_COLOR],
          accepted |-> FALSE]

\* The rejected packet is not counted.
enqueue_packet_uncounted(q, d, cap, packet) ==
    IF Len(q) < cap
    THEN [queue |-> Append(q, packet), dropped_packets |-> d,
          packet |-> packet, accepted |-> TRUE]
    ELSE [queue |-> q, dropped_packets |-> d,
          packet |-> [packet EXCEPT !.color = DROPPED_PACKET_COLOR],
          accepted |-> FALSE]

\* pop() instead of pop(0): the newest packet is returned.
process_packet_pop_last(q) ==
    IF q # <<>>
    THEN [ret |-> <<q[Len(q)]>>, queue |-> SubSeq(q, 1, Len(q) - 1),
          raised |-> FALSE]
    ELSE [ret |-> None, queue |-> q, raised |-> FALSE]

\* No emptiness test: pop(0) on an empty list raises IndexError.
process_packet_unguarded(q) ==
    IF q # <<>>
    THEN [ret |-> <<Head(q)>>, queue |-> Tail(q), raised |-> FALSE]
    ELSE [ret |-> None, queue |-> q, raised |-> TRUE]

\* queue[0] instead of queue.pop(0): the head is returned but not removed.
process_packet_peek(q) ==
    IF q # <<>>
    THEN [ret |-> <<Head(q)>>, queue |-> q, raised |-> FALSE]
    ELSE [ret |-> None, queue |-> q, raised |-> FALSE]

\* Switch.enqueue_packet on a switch with queue q, counter d, capacity cap.
enqueue_packet(q, d, cap, packet) ==
    IF Len(q) < cap
    THEN [queue |-> Append(q, packet), dropped_packets |-> d,
          packet |-> packet, accepted |-> TRUE]
    ELSE [queue |-> q, dropped_packets |-> d + 1,
          packet |-> [packet EXCEPT !.color = DROPPED_PACKET_COLOR],
          accepted |-> FALSE]

\* Switch.process_packet on a switch with queue q.
\* list.pop(0) raises IndexError only on an empty list.
process_packet(q) ==
    IF q # <<>>
    THEN [ret |-> <<Head(q)>>, queue |-> Tail(q), raised |-> FALSE]
    ELSE [ret |-> None, queue |-> q, raised |-> FALSE]

\* Variants of service_tick with a seeded fault.
\* while instead of if: one tick empties the queue.
service_tick_drain(q) ==
    IF q # <<>>
    THEN [ret |-> <<Head(q)>>, queue |-> <<>>, raised |-> FALSE]
    ELSE [ret |-> None, queue |-> q, raised |-> FALSE]

\* A tick serves only when more than one packet waits.
service_tick_lazy(q) ==
    IF Len(q) > 1
    THEN process_packet(q)
    ELSE [ret |-> None, queue |-> q, raised |-> FALSE]

\* Body of the loop of Switch.run after its timeout.
service_tick(q) ==
    IF q # <<>>
    THEN process_packet(q)
    ELSE [ret |-> None, queue |-> q, raised |-> FALSE]

\* Serial numbers of a sequence of packets.
Serials(ps) == [i \in 1..Len(ps) |-> ps[i].serial]

\* -------------------------------------------------------- service count
\* Per switch: the number of service events so far (ticks), for each accepted
\* packet the count at its admission (at) and the service event that is to
\* remove it (due: the count at its admission plus its queue position), and
\* for each removed packet the service event that removed it (left).
NoResponse == [ticks |-> 0, at |-> <<>>, due |-> <<>>, left |-> <<>>]

\* A packet was appended and now stands at position pos of the queue.
Admitted(rsp, pos) ==
    [rsp EXCEPT !.at = Append(@, rsp.ticks), !.due = Append(@, rsp.ticks + pos)]

\* A service event took place and returned ret.
Ticked(rsp, ret) ==
    [ticks |-> rsp.ticks + 1,
     at |-> rsp.at,
     due |-> rsp.due,
     left |-> IF ret # None THEN Append(rsp.left, rsp.ticks + 1) ELSE rsp.left]

\* ------------------------------------------------------------------ Init
EmptyMetrics ==
    [time_steps |-> <<>>, queue_length_sw1 |-> <<>>, queue_length_sw2 |-> <<>>,
     dropped_packets_sw1 |-> <<>>, dropped_packets_sw2 |-> <<>>]

NoEvent == [op |-> "none", proc |-> MonitorProc, packet |-> None,
            accepted |-> FALSE, ret |-> None, raised |-> FALSE]

\* Processes in the order simulate_traffic creates them.
CreationOrder ==
    <<SwitchProc(1), SwitchProc(2), NodeProc(1), NodeProc(2), NodeProc(3),
      NodeProc(4), MonitorProc>>

\* State after the constructors of simulate_traffic have run, for given
\* max_queue_size arguments.
Constructed(caps) ==
    /\ now = 0
    /\ sched = [i \in 1..Len(CreationOrder) |-> Initialize(CreationOrder[i])]
    /\ max_queue_size = caps
    /\ queue = [s \in Switches |-> <<>>]
    /\ dropped_packets = [s \in Switches |-> 0]
    /\ metrics = EmptyMetrics
    /\ pc = "running"
    /\ last = NoEvent
    /\ generated = 0
    /\ offered = [s \in Switches |-> 0]
    /\ accepted = [s \in Switches |-> <<>>]
    /\ delivered = [s \in Switches |-> <<>>]
    /\ short = 0
    /\ calls = 0
    /\ response = [s \in Switches |-> NoResponse]

\* max_queue_size arguments explored: the small capacities and the one
\* simulate_traffic passes.
Capacities == (1..MaxCapacity) \cup {DefaultCapacity}

Init == \E caps \in [Switches -> Capacities] : Constructed(caps)

\* ----------------------------------------------------------- env.step()
\* The run loop is still iterating and the next event is within the bound.
CanStep ==
    /\ pc = "running"
    /\ sched # <<>>
    /\ Head(sched).time <= MaxTime

Due(p, kind) == CanStep /\ Head(sched).proc = p /\ Head(sched).kind = kind

\* random.uniform(0.01, 0.1) returns d; draws below MaxDelay are counted.
Draw(d) ==
    /\ d < MaxDelay => short < MaxShort
    /\ short' = IF d < MaxDelay THEN short + 1 ELSE short

\* First resumption of Switch.run: runs to the first yield.
SwitchStart(s) ==
    /\ Due(SwitchProc(s), "init")
    /\ now' = Head(sched).time
    /\ sched' = Schedule(Tail(sched), Timeout(now', ServiceInterval, SwitchProc(s)))
    /\ last' = [NoEvent EXCEPT !.op = "start", !.proc = SwitchProc(s)]
    /\ UNCHANGED <<max_queue_size, queue, dropped_packets, metrics, pc,
                   generated, offered, accepted, delivered, short, calls, response>>

\* First resumption of Node.run.
NodeStart(n) ==
    /\ Due(NodeProc(n), "init")
    /\ now' = Head(sched).time
    /\ \E d \in Delays : Draw(d) /\
         sched' = Schedule(Tail(sched), Timeout(now', d, NodeProc(n)))
    /\ last' = [NoEvent EXCEPT !.op = "start", !.proc = NodeProc(n)]
    /\ UNCHANGED <<max_queue_size, queue, dropped_packets, metrics, pc,
                   generated, offered, accepted, delivered, calls, response>>

\* First resumption of monitor.
MonitorStart ==
    /\ Due(MonitorProc, "init")
    /\ now' = Head(sched).time
    /\ sched' = Schedule(Tail(sched), Timeout(now', SampleInterval, MonitorProc))
    /\ last' = [NoEvent EXCEPT !.op = "start", !.proc = MonitorProc]
    /\ UNCHANGED <<max_queue_size, queue, dropped_packets, metrics, pc,
                   generated, offered, accepted, delivered, short, calls, response>>

\* Variant of NodeRun with a seeded fault (overflow routing): a packet whose
\* chosen switch is full is offered to the other switch instead.
NodeRunOverflow(n) ==
    /\ Due(NodeProc(n), "timeout")
    /\ now' = Head(sched).time
    /\ \E chosen_switch \in Switches :
         LET target == IF Len(queue[chosen_switch]) < max_queue_size[chosen_switch]
                       THEN chosen_switch
                       ELSE CHOOSE o \in Switches : o # chosen_switch
             packet == generate_packet(n, now', chosen_switch, generated + 1)
             r == enqueue_packet(queue[target], dropped_packets[target],
                                 max_queue_size[target], packet)
         IN /\ queue' = [queue EXCEPT ![target] = r.queue]
            /\ dropped_packets' =
                 [dropped_packets EXCEPT ![target] = r.dropped_packets]
            /\ offered' = [offered EXCEPT ![target] = @ + 1]
            /\ accepted' = [accepted EXCEPT ![target] =
                               IF r.accepted THEN Append(@, packet.serial) ELSE @]
            /\ response' = [response EXCEPT ![target] =
                               IF r.accepted THEN Admitted(@, Len(r.queue)) ELSE @]
            /\ last' = [op |-> "generate", proc |-> NodeProc(n),
                        packet |-> <<r.packet>>, accepted |-> r.accepted,
                        ret |-> None, raised |-> FALSE]
    /\ generated' = generated + 1
    /\ \E d \in Delays : Draw(d) /\
         sched' = Schedule(Tail(sched), Timeout(now', d, NodeProc(n)))
    /\ UNCHANGED <<max_queue_size, metrics, pc, delivered, calls>>

\* One iteration of Node.run after its timeout: generate a packet, offer it
\* to the chosen switch, then yield the next timeout.
NodeRun(n) ==
    /\ Due(NodeProc(n), "timeout")
    /\ now' = Head(sched).time
    /\ \E chosen_switch \in Switches :
         LET packet == generate_packet(n, now', chosen_switch, generated + 1)
             r == enqueue_packet(queue[chosen_switch],
                                 dropped_packets[chosen_switch],
                                 max_queue_size[chosen_switch], packet)
         IN /\ queue' = [queue EXCEPT ![chosen_switch] = r.queue]
            /\ dropped_packets' =
                 [dropped_packets EXCEPT ![chosen_switch] = r.dropped_packets]
            /\ offered' = [offered EXCEPT ![chosen_switch] = @ + 1]
            /\ accepted' = [accepted EXCEPT ![chosen_switch] =
                               IF r.accepted THEN Append(@, packet.serial) ELSE @]
            /\ response' = [response EXCEPT ![chosen_switch] =
                               IF r.accepted THEN Admitted(@, Len(r.queue)) ELSE @]
            /\ last' = [op |-> "generate", proc |-> NodeProc(n),
                        packet |-> <<r.packet>>, accepted |-> r.accepted,
                        ret |-> None, raised |-> FALSE]
    /\ generated' = generated + 1
    /\ \E d \in Delays : Draw(d) /\
         sched' = Schedule(Tail(sched), Timeout(now', d, NodeProc(n)))
    /\ UNCHANGED <<max_queue_size, metrics, pc, delivered, calls>>

\* Variant of SwitchRun with a seeded fault: the process returns when it
\* finds the queue empty, so it yields no further timeout.
SwitchRunStops(s) ==
    /\ Due(SwitchProc(s), "timeout")
    /\ now' = Head(sched).time
    /\ LET r == service_tick(queue[s])
       IN /\ queue' = [queue EXCEPT ![s] = r.queue]
          /\ delivered' = [delivered EXCEPT ![s] = @ \o Serials(r.ret)]
          /\ response' = [response EXCEPT ![s] = Ticked(@, r.ret)]
          /\ last' = [op |-> "service", proc |-> SwitchProc(s),
                      packet |-> None, accepted |-> FALSE, ret |-> r.ret,
                      raised |-> r.raised]
    /\ sched' = IF queue[s] = <<>>
                THEN Tail(sched)
                ELSE Schedule(Tail(sched),
                              Timeout(now', ServiceInterval, SwitchProc(s)))
    /\ UNCHANGED <<max_queue_size, dropped_packets, metrics, pc, generated,
                   offered, accepted, short, calls>>

\* One iteration of Switch.run after its timeout.
SwitchRun(s) ==
    /\ Due(SwitchProc(s), "timeout")
    /\ now' = Head(sched).time
    /\ LET r == service_tick(queue[s])
       IN /\ queue' = [queue EXCEPT ![s] = r.queue]
          /\ delivered' = [delivered EXCEPT ![s] = @ \o Serials(r.ret)]
          /\ response' = [response EXCEPT ![s] = Ticked(@, r.ret)]
          /\ last' = [op |-> "service", proc |-> SwitchProc(s),
                      packet |-> None, accepted |-> FALSE, ret |-> r.ret,
                      raised |-> r.raised]
    /\ sched' = Schedule(Tail(sched), Timeout(now', ServiceInterval, SwitchProc(s)))
    /\ UNCHANGED <<max_queue_size, dropped_packets, metrics, pc, generated,
                   offered, accepted, short, calls>>

\* Variant of MonitorRun with a seeded fault: the time is appended twice.
MonitorRunTwice ==
    /\ Due(MonitorProc, "timeout")
    /\ now' = Head(sched).time
    /\ metrics' =
         [time_steps |-> Append(Append(metrics.time_steps, now'), now'),
          queue_length_sw1 |-> Append(metrics.queue_length_sw1, Len(queue[1])),
          queue_length_sw2 |-> Append(metrics.queue_length_sw2, Len(queue[2])),
          dropped_packets_sw1 |->
              Append(metrics.dropped_packets_sw1, dropped_packets[1]),
          dropped_packets_sw2 |->
              Append(metrics.dropped_packets_sw2, dropped_packets[2])]
    /\ sched' = Schedule(Tail(sched), Timeout(now', SampleInterval, MonitorProc))
    /\ last' = [NoEvent EXCEPT !.op = "sample", !.proc = MonitorProc]
    /\ UNCHANGED <<max_queue_size, queue, dropped_packets, pc, generated,
                   offered, accepted, delivered, short, calls, response>>

\* One iteration of monitor after its timeout.
MonitorRun ==
    /\ Due(MonitorProc, "timeout")
    /\ now' = Head(sched).time
    /\ metrics' =
         [time_steps |-> Append(metrics.time_steps, now'),
          queue_length_sw1 |-> Append(metrics.queue_length_sw1, Len(queue[1])),
          queue_length_sw2 |-> Append(metrics.queue_length_sw2, Len(queue[2])),
          dropped_packets_sw1 |->
              Append(metrics.dropped_packets_sw1, dropped_packets[1]),
          dropped_packets_sw2 |->
              Append(metrics.dropped_packets_sw2, dropped_packets[2])]
    /\ sched' = Schedule(Tail(sched), Timeout(now', SampleInterval, MonitorProc))
    /\ last' = [NoEvent EXCEPT !.op = "sample", !.proc = MonitorProc]
    /\ UNCHANGED <<max_queue_size, queue, dropped_packets, pc, generated,
                   offered, accepted, delivered, short, calls, response>>

\* ---------------------------------------------------- simulate_traffic
\* pygame.QUIT seen by the run loop: return metrics.
Quit ==
    /\ pc = "running"
    /\ pc' = "quit"
    /\ UNCHANGED <<now, sched, max_queue_size, queue, dropped_packets, metrics,
                   last, generated, offered, accepted, delivered, short, calls, response>>

\* Variant of Expire with a seeded fault: the loop condition never turns
\* false (while True).
ExpireNever ==
    /\ pc = "running"
    /\ pc' = "running"
    /\ UNCHANGED <<now, sched, max_queue_size, queue, dropped_packets, metrics,
                   last, generated, offered, accepted, delivered, short, calls, response>>

\* time.time() - start_time >= 30: the loop ends and metrics is returned.
Expire ==
    /\ pc = "running"
    /\ pc' = "expired"
    /\ UNCHANGED <<now, sched, max_queue_size, queue, dropped_packets, metrics,
                   last, generated, offered, accepted, delivered, short, calls, response>>

Next ==
    \/ \E s \in Switches : SwitchStart(s)
    \/ \E n \in Nodes : NodeStart(n)
    \/ MonitorStart
    \/ \E n \in Nodes : NodeRun(n)
    \/ \E s \in Switches : SwitchRun(s)
    \/ MonitorRun
    \/ Quit
    \/ Expire

Spec == Init /\ [][Next]_vars


\* --------------------------------------------------- the run as written
\* simulate_traffic constructs both switches with max_queue_size = 10.
InitDefault == Constructed([s \in Switches |-> DefaultCapacity])

\* Every iteration of the run loop takes wall-clock time, so the test
\* time.time() - start_time < 30 eventually fails.
FairSpec == InitDefault /\ [][Next]_vars /\ WF_vars(Expire)

\* ------------------------------------------------- direct method calls
\* The methods of Switch called directly on the constructed objects, in any
\* order, without the scheduler.
CanCall == calls < MaxCalls

\* packet.to_switch.enqueue_packet(packet) for a packet of node n.
CallEnqueue(n, s) ==
    /\ CanCall
    /\ LET packet == generate_packet(n, now, s, generated + 1)
           r == enqueue_packet(queue[s], dropped_packets[s], max_queue_size[s],
                               packet)
       IN /\ queue' = [queue EXCEPT ![s] = r.queue]
          /\ dropped_packets' = [dropped_packets EXCEPT ![s] = r.dropped_packets]
          /\ accepted' = [accepted EXCEPT ![s] =
                             IF r.accepted THEN Append(@, packet.serial) ELSE @]
          /\ response' = [response EXCEPT ![s] =
                             IF r.accepted THEN Admitted(@, Len(r.queue)) ELSE @]
          /\ last' = [op |-> "enqueue_packet", proc |-> SwitchProc(s),
                      packet |-> <<r.packet>>, accepted |-> r.accepted,
                      ret |-> None, raised |-> FALSE]
    /\ generated' = generated + 1
    /\ offered' = [offered EXCEPT ![s] = @ + 1]
    /\ calls' = calls + 1
    /\ UNCHANGED <<now, sched, max_queue_size, metrics, pc, delivered, short>>

\* switch.process_packet()
CallProcess(s) ==
    /\ CanCall
    /\ LET r == process_packet(queue[s])
       IN /\ queue' = [queue EXCEPT ![s] = r.queue]
          /\ delivered' = [delivered EXCEPT ![s] = @ \o Serials(r.ret)]
          /\ response' = [response EXCEPT ![s] = Ticked(@, r.ret)]
          /\ last' = [op |-> "process_packet", proc |-> SwitchProc(s),
                      packet |-> None, accepted |-> FALSE, ret |-> r.ret,
                      raised |-> r.raised]
    /\ calls' = calls + 1
    /\ UNCHANGED <<now, sched, max_queue_size, dropped_packets, metrics, pc,
                   generated, offered, accepted, short>>

\* The body of the loop of Switch.run, without its timeout.
CallTick(s) ==
    /\ CanCall
    /\ LET r == service_tick(queue[s])
       IN /\ queue' = [queue EXCEPT ![s] = r.queue]
          /\ delivered' = [delivered EXCEPT ![s] = @ \o Serials(r.ret)]
          /\ response' = [response EXCEPT ![s] = Ticked(@, r.ret)]
          /\ last' = [op |-> "service_tick", proc |-> SwitchProc(s),
                      packet |-> None, accepted |-> FALSE, ret |-> r.ret,
                      raised |-> r.raised]
    /\ calls' = calls + 1
    /\ UNCHANGED <<now, sched, max_queue_size, dropped_packets, metrics, pc,
                   generated, offered, accepted, short>>

NextCalls ==
    \/ \E n \in Nodes, s \in Switches : CallEnqueue(n, s)
    \/ \E s \in Switches : CallProcess(s)
    \/ \E s \in Switches : CallTick(s)

SpecCalls == Init /\ [][NextCalls]_vars

\* ------------------------------------------- any constructor argument
\* Switch.__init__ stores whatever max_queue_size it is given.
InitAnyCapacity ==
    \E caps \in [Switches -> (-1..0) \cup Capacities] : Constructed(caps)

SpecAnyCapacity == InitAnyCapacity /\ [][Next]_vars

\* ---------------------------------------------------------------- sums
Min(a, b) == IF a < b THEN a ELSE b
Max(a, b) == IF a < b THEN b ELSE a

TotalQueued == Len(queue[1]) + Len(queue[2])
TotalDelivered == Len(delivered[1]) + Len(delivered[2])
TotalDropped == dropped_packets[1] + dropped_packets[2]

TypeOK ==
    /\ now \in 0..MaxTime
    /\ pc \in {"running", "quit", "expired"}
    /\ \A s \in Switches : Len(queue[s]) <= Max(0, max_queue_size[s])
    /\ Len(sched) = Len(CreationOrder)

\* ---------------------------------------------------------------- claims
\* A step in which a node generated a packet, and the switch it chose.
GenerationStep == generated' # generated
ChosenSwitch == last'.packet[1].to_switch

\* C1: every switch holds at most max_queue_size packets, in every state
\* reached by any interleaving of node, switch and monitor events.
CapacityInvariant ==
    \A s \in Switches : Len(queue[s]) <= max_queue_size[s]

\* C1 witness: a switch that has dropped a packet and serviced one is full.
FullAfterDropAndService ==
    \E s \in Switches :
        /\ Len(queue[s]) = max_queue_size[s]
        /\ dropped_packets[s] > 0
        /\ delivered[s] # <<>>

\* C2: enqueue_packet accepts the arriving packet iff the queue is below
\* capacity at the call; on accept the packet becomes the last element and no
\* drop counter changes; on reject the switch's drop counter increases and
\* every queue is unchanged, so the arriving packet is the one dropped.
AdmissionRule ==
    [][GenerationStep =>
         LET s == ChosenSwitch
             p == last'.packet[1]
         IN /\ last'.accepted <=> Len(queue[s]) < max_queue_size[s]
            /\ last'.accepted =>
                 /\ queue' = [queue EXCEPT ![s] = Append(queue[s], p)]
                 /\ dropped_packets' = dropped_packets
            /\ ~last'.accepted =>
                 /\ dropped_packets'[s] > dropped_packets[s]
                 /\ queue' = queue]_vars

\* C2 witness: the last event was a generation rejected by a full switch
\* that still holds the packets accepted before.
RejectedArrival ==
    /\ last.op = "generate"
    /\ ~last.accepted
    /\ Len(queue[last.packet[1].to_switch]) =
           max_queue_size[last.packet[1].to_switch]
    /\ Len(accepted[last.packet[1].to_switch]) > 0

\* C3: the packets process_packet has returned, followed by the packets still
\* queued, are the accepted packets in admission order: services return
\* packets in admission order and the head is the earliest admitted.
FifoOrder ==
    \A s \in Switches : accepted[s] = delivered[s] \o Serials(queue[s])

\* C3 witness: two packets were returned by one switch while a third was
\* admitted.
TwoServedInOrder ==
    \E s \in Switches : Len(delivered[s]) >= 2 /\ Len(accepted[s]) >= 2

\* C4: a drop counter never decreases; it grows by exactly 1 in a step that
\* rejects a packet at that switch and by 0 in every other step.
DropMonotonicity ==
    [][\A s \in Switches :
         dropped_packets'[s] =
             dropped_packets[s] +
             (IF GenerationStep /\ ChosenSwitch = s /\ ~last'.accepted
              THEN 1 ELSE 0)]_vars

\* C4 witness: a sample was taken after a switch rejected two packets.
SampledAfterTwoDrops ==
    /\ last.op = "sample"
    /\ \E s \in Switches : dropped_packets[s] >= 2

\* C5 as stated: when the run has ended, generated = delivered + dropped.
ConservationAtEnd ==
    pc # "running" => generated = TotalDelivered + TotalDropped

\* C5 amended: when the run has ended, generated = delivered + dropped +
\* still queued.
ConservationWithQueued ==
    pc # "running" => generated = TotalDelivered + TotalDropped + TotalQueued

\* C5 witness: a run that ended with packets delivered, dropped and queued.
EndedWithAllThree ==
    /\ pc # "running"
    /\ TotalDelivered > 0
    /\ TotalDropped > 0
    /\ TotalQueued > 0

\* C6 as stated: no two packets of a run carry the same packet_id.
UniquePacketIds ==
    \A s1, s2 \in Switches :
        \A i \in 1..Len(queue[s1]), j \in 1..Len(queue[s2]) :
            queue[s1][i].serial # queue[s2][j].serial
                => queue[s1][i].packet_id # queue[s2][j].packet_id

\* A service event, or a sample, already processed at time t.
ServicedAt(t) ==
    \E i \in 1..Len(sched) :
        /\ sched[i].proc.type = "switch"
        /\ sched[i].kind = "timeout"
        /\ t > 0
        /\ sched[i].time = t + ServiceInterval
SampledAt(t) ==
    \E i \in 1..Len(metrics.time_steps) : metrics.time_steps[i] = t

\* C7 as stated: within one simulated instant generation events come before
\* the service events, and the sample comes after every generation and
\* service of that instant.
GenerationServiceSampleOrder ==
    /\ last.op = "generate" => ~ServicedAt(now) /\ ~SampledAt(now)
    /\ last.op = "service" => ~SampledAt(now)

\* C8: process_packet on an empty queue, and a service tick that finds the
\* queue empty, return None, do not raise and change neither the queues nor
\* the drop counters.
EmptyServiceNoOp ==
    [][\A s \in Switches :
         (/\ calls' # calls
          /\ last'.op \in {"process_packet", "service_tick"}
          /\ last'.proc = SwitchProc(s)
          /\ queue[s] = <<>>)
         => /\ last'.ret = None
            /\ ~last'.raised
            /\ queue' = queue
            /\ dropped_packets' = dropped_packets]_vars

\* C8 witness: process_packet returned None on an empty queue after earlier
\* calls had filled and emptied the switch.
ProcessedEmptyQueue ==
    /\ last.op = "process_packet"
    /\ last.ret = None
    /\ queue[last.proc.id] = <<>>
    /\ delivered[last.proc.id] # <<>>

PositiveCapacityOnly ==
    last.op # "none" => \A s \in Switches : max_queue_size[s] > 0

\* C11: the entries of time_steps are strictly increasing, and a step that
\* changes the metrics is one monitor firing that appends exactly one value
\* to time_steps.
SampleTimesIncrease ==
    /\ [](\A i \in 1..Len(metrics.time_steps) :
            \A j \in 1..Len(metrics.time_steps) :
                i < j => metrics.time_steps[i] < metrics.time_steps[j])
    /\ [][metrics' # metrics =>
            /\ Head(sched).proc = MonitorProc
            /\ Head(sched).kind = "timeout"
            /\ metrics'.time_steps = Append(metrics.time_steps, now')]_vars

\* C11 witness: the monitor has fired twice.
TwoSamples ==
    /\ Len(metrics.time_steps) = 2
    /\ last.op = "sample"

\* C12: a packet removed by a service was created no later than the service
\* time (latency >= 0), was accepted and carries no drop mark; the packets
\* still queued were created no later than now.
LatencyNonNegative ==
    /\ (last.op = "service" /\ last.ret # None) =>
           /\ now - last.ret[1].arrival_time >= 0
           /\ last.ret[1].color = PACKET_COLOR
           /\ \E i \in 1..Len(accepted[last.proc.id]) :
                  accepted[last.proc.id][i] = last.ret[1].serial
    /\ \A s \in Switches : \A i \in 1..Len(queue[s]) :
           /\ queue[s][i].arrival_time <= now
           /\ queue[s][i].color = PACKET_COLOR

\* C12 witness: a service removed a packet with positive latency while the
\* same switch had dropped another packet.
ServedWithLatency ==
    /\ last.op = "service"
    /\ last.ret # None
    /\ now - last.ret[1].arrival_time > 0
    /\ dropped_packets[last.proc.id] > 0

\* C13: the run loop eventually stops, and once it has stopped no event is
\* dispatched: time, schedule, queues, drop counters and the metrics that
\* are returned no longer change.
Termination ==
    /\ <>(pc # "running")
    /\ [][pc # "running" =>
            /\ pc' = pc
            /\ now' = now
            /\ sched' = sched
            /\ queue' = queue
            /\ dropped_packets' = dropped_packets
            /\ metrics' = metrics]_vars

\* C13 witness: the loop ended on the time limit after a sample was taken
\* and with events still pending.
ExpiredWithPendingEvents ==
    /\ pc = "expired"
    /\ metrics.time_steps # <<>>
    /\ sched # <<>>

\* Number of pending events of kind k that belong to process p.
Pending(p, k) ==
    Cardinality({i \in 1..Len(sched) : sched[i].proc = p /\ sched[i].kind = k})

Procs == {CreationOrder[i] : i \in 1..Len(CreationOrder)}

\* C14 as stated: in every reachable state each of the seven processes has
\* exactly one pending timeout.
OnePendingTimeoutEach ==
    \A p \in Procs : Pending(p, "timeout") = 1

\* C14 amended: in every reachable state each of the seven processes has
\* exactly one pending event, its Initialize event until its first
\* resumption and a timeout afterwards, so the schedule is never empty.
OnePendingEventEach ==
    /\ \A p \in Procs : Pending(p, "init") + Pending(p, "timeout") = 1
    /\ Len(sched) = Len(CreationOrder)
    /\ \A i \in 1..Len(sched) :
           sched[i].kind = "init" => (sched[i].time = 0 /\ now = 0)
    /\ sched # <<>>

\* C14 witness: after a service that found its queue empty every process
\* has a timeout pending.
AllTimeoutsAfterEmptyService ==
    /\ last.op = "service"
    /\ last.ret = None
    /\ \A p \in Procs : Pending(p, "timeout") = 1

\* A direct service call (process_packet or the service-tick body) on
\* switch s in this step.
ServiceCall(s) ==
    /\ calls' # calls
    /\ last'.op \in {"process_packet", "service_tick"}
    /\ last'.proc = SwitchProc(s)

\* C15: a service call on a non-empty queue returns exactly the head packet
\* and removes it: occupancy falls by 1, the remaining packets keep their
\* order, the other queue and all drop counters are unchanged.
ServiceRemovesHead ==
    [][\A s \in Switches :
         (ServiceCall(s) /\ queue[s] # <<>>) =>
            /\ last'.ret = <<Head(queue[s])>>
            /\ Len(queue'[s]) = Len(queue[s]) - 1
            /\ \A i \in 1..Len(queue'[s]) : queue'[s][i] = queue[s][i + 1]
            /\ \A o \in Switches \ {s} : queue'[o] = queue[o]
            /\ dropped_packets' = dropped_packets]_vars

\* C15 witness: process_packet returned a packet and left others queued.
ProcessedWithRemainder ==
    /\ last.op = "process_packet"
    /\ last.ret # None
    /\ Len(queue[last.proc.id]) >= 2

\* The pending timeout of switch s is due at time t.
SwitchDueAt(sch, s, t) ==
    \E i \in 1..Len(sch) :
        /\ sch[i].proc = SwitchProc(s)
        /\ sch[i].kind = "timeout"
        /\ sch[i].time = t

\* The event dispatched in this step is the service timeout of switch s.
ServiceEvent(s) ==
    /\ sched' # sched
    /\ Head(sched).proc = SwitchProc(s)
    /\ Head(sched).kind = "timeout"

DropImmediately ==
    [][GenerationStep =>
         LET s == ChosenSwitch
         IN /\ offered'[s] = offered[s] + 1
            /\ \A o \in Switches \ {s} :
                   /\ queue'[o] = queue[o]
                   /\ dropped_packets'[o] = dropped_packets[o]
                   /\ offered'[o] = offered[o]
            /\ Len(queue[s]) >= max_queue_size[s] =>
                   /\ ~last'.accepted
                   /\ dropped_packets'[s] = dropped_packets[s] + 1
                   /\ queue' = queue]_vars

\* C17 witness: a packet was dropped at its full chosen switch while the
\* other switch had free space and had been offered nothing at that time.
DroppedDespiteFreeAlternate ==
    /\ last.op = "generate"
    /\ ~last.accepted
    /\ \E o \in Switches :
           /\ o # last.packet[1].to_switch
           /\ Len(queue[o]) < max_queue_size[o]
           /\ dropped_packets[o] = 0

\* C18: for each switch, packets offered = packets queued + packets serviced
\* + packets dropped, in every state; every generated packet was offered to
\* exactly one switch, so the same holds for the totals.
PerSwitchAccounting ==
    /\ \A s \in Switches :
           offered[s] = Len(queue[s]) + Len(delivered[s]) + dropped_packets[s]
    /\ generated = offered[1] + offered[2]
    /\ generated = TotalQueued + TotalDelivered + TotalDropped

\* C18 witness: the run is still going and one switch has packets queued,
\* serviced and dropped.
RunningWithAllThree ==
    /\ pc = "running"
    /\ \E s \in Switches :
           /\ queue[s] # <<>>
           /\ delivered[s] # <<>>
           /\ dropped_packets[s] > 0

\* The elements of a sequence.
Range(f) == {f[i] : i \in 1..Len(f)}

\* C19: no packet object is in two queue slots; a serviced packet is in no
\* queue; every queued or serviced packet was accepted by that switch, so a
\* dropped packet is never queued or serviced; a packet is serviced once.
SingleOwnership ==
    /\ \A s1, s2 \in Switches :
           \A i \in 1..Len(queue[s1]), j \in 1..Len(queue[s2]) :
               queue[s1][i].serial = queue[s2][j].serial => (s1 = s2 /\ i = j)
    /\ \A s, o \in Switches :
           Range(Serials(queue[s])) \cap Range(delivered[o]) = {}
    /\ \A s \in Switches :
           /\ Range(Serials(queue[s])) \subseteq Range(accepted[s])
           /\ Range(delivered[s]) \subseteq Range(accepted[s])
           /\ Cardinality(Range(delivered[s])) = Len(delivered[s])
    /\ Range(accepted[1]) \cap Range(accepted[2]) = {}
    /\ (last.op = "generate" /\ ~last.accepted) =>
           \A s \in Switches :
               /\ last.packet[1].serial \notin Range(Serials(queue[s]))
               /\ last.packet[1].serial \notin Range(delivered[s])

\* C19 witness: a switch holds a packet, has serviced another and has just
\* dropped a third.
QueuedServedAndDropped ==
    /\ last.op = "generate"
    /\ ~last.accepted
    /\ queue[last.packet[1].to_switch] # <<>>
    /\ delivered[last.packet[1].to_switch] # <<>>

====
